---- MODULE Spec2Model ----
(***************************************************************************)
(* VGG + bidirectional LSTM encoder (models/encoders/core/vgg_blstm.py).   *)
(*                                                                         *)
(* One VGGBLSTMEncoder object: its construction (__init__) and the linear  *)
(* graph-building sequence of __call__ (VGG1, VGG2, flatten, bridge,       *)
(* dropout, backend dispatch).  Tensors are modelled by their static       *)
(* shapes without the leading B*T (or B, T) dimensions, which every stage  *)
(* leaves alone.  Python's None is the empty tuple <<>>, a present value v *)
(* is the one-element tuple <<v>>.                                         *)
(***************************************************************************)
EXTENDS Integers, Sequences, FiniteSets, TLC

VARIABLES args, ctor, self, pc, tensor, graph, mark, called, result, err, ncalls

vars == <<args, ctor, self, pc, tensor, graph, mark, called, result, err, ncalls>>

----------------------------------------------------------------------------
(* Bounds of the model *)

MaxInputSize == 27
MaxSplice == 6
MaxUnits == 2
MaxProj == 2
MaxLayers == 1
MaxCalls == 2

None == <<>>
Some(v) == <<v>>

(* The selector strings tried: the five literals of the code and two that
   it does not know. *)
LstmImpls ==
    {"BasicLSTMCell", "LSTMCell", "LSTMBlockCell", "LSTMBlockFusedCell",
     "CudnnLSTM", "GRUCell", "lstmcell"}

ArgSpace ==
    [input_size : 0..MaxInputSize,
     splice : 1..MaxSplice,
     num_units : 1..MaxUnits,
     num_proj : 0..MaxProj,
     num_layers : 1..MaxLayers,
     lstm_impl : LstmImpls,
     use_peephole : BOOLEAN,
     parameter_init : {"0.1"},
     clip_activation : {"5.0"},
     time_major : BOOLEAN,
     name : {"vgg_blstm_encoder"}]

----------------------------------------------------------------------------
(* __init__ *)

(* The two assert statements, in order; TRUE when both pass. *)
ValidateNoSize(a) == a.num_proj # 0
ValidateNoProj(a) == a.input_size % 3 = 0
ValidateProjIfUsed(a) ==
    /\ (a.lstm_impl = "LSTMCell" => a.num_proj # 0)
    /\ a.input_size % 3 = 0
Validate(a) ==
    /\ a.num_proj # 0
    /\ a.input_size % 3 = 0

(* self.num_channels = input_size // 3 *)
NumChannelsUndivided(input_size) == input_size
NumChannels(input_size) == input_size \div 3

(* if lstm_impl != 'LSTMCell': self.num_proj = None else: num_proj *)
StoredProjAlways(a) == Some(a.num_proj)
StoredProj(a) ==
    IF a.lstm_impl # "LSTMCell" THEN None ELSE Some(a.num_proj)

(* The attributes assigned by __init__. *)
Fields(a) ==
    [input_size |-> a.input_size,
     num_channels |-> NumChannels(a.input_size),
     splice |-> a.splice,
     num_units |-> a.num_units,
     num_proj |-> StoredProj(a),
     num_layers |-> a.num_layers,
     lstm_impl |-> a.lstm_impl,
     use_peephole |-> a.use_peephole,
     parameter_init |-> a.parameter_init,
     clip_activation |-> a.clip_activation,
     time_major |-> a.time_major,
     name |-> a.name]

Construct ==
    /\ ctor = "new"
    /\ IF Validate(args)
         THEN /\ ctor' = "ok"
              /\ self' = Some(Fields(args))
         ELSE /\ ctor' = "AssertionError"
              /\ self' = None
    /\ UNCHANGED <<args, pc, tensor, graph, mark, called, result, err, ncalls>>

----------------------------------------------------------------------------
(* Collaborators of __call__: models.encoders.core.cnn_util and
   models.encoders.core.blstm, by their effect on the static shape. *)

(* Stride-1 convolution: keeps height and width, depth becomes C_out. *)
conv_layer(t, filter_size) == <<t[1], t[2], filter_size[4]>>

batch_normalization(t) == t

(* 2x2 pooling with stride 2: each spatial dimension n becomes ceil(n/2). *)
max_pool(t) == <<(t[1] + 1) \div 2, (t[2] + 1) \div 2, t[3]>>

(* Output layout of a recurrent builder with trailing dimension n. *)
Layout(time_major, n) ==
    IF time_major THEN <<"T", "B", n>> ELSE <<"B", "T", n>>

basiclstmcell(num_units, num_layers, time_major) ==
    [outputs |-> Layout(time_major, num_units),
     final_state |-> <<"basiclstmcell", num_layers>>]

lstmcell(num_units, num_proj, num_layers, time_major) ==
    [outputs |-> Layout(time_major,
                        IF num_proj = None THEN num_units ELSE num_proj[1]),
     final_state |-> <<"lstmcell", num_layers>>]

lstmblockcell(num_units, num_layers, time_major) ==
    [outputs |-> Layout(time_major, num_units),
     final_state |-> <<"lstmblockcell", num_layers>>]

lstmblockfusedcell(num_units, num_layers, time_major) ==
    [outputs |-> Layout(time_major, num_units),
     final_state |-> <<"lstmblockfusedcell", num_layers>>]

cudnnlstm(num_units, num_layers, time_major) ==
    [outputs |-> Layout(time_major, num_units),
     final_state |-> <<"cudnnlstm", num_layers>>]

----------------------------------------------------------------------------
(* __call__ *)

Obj == self[1]

(* math.ceil(n / d) under true division, n >= 0, d > 0: the least integer
   k with k * d >= n. *)
MathFloor(n, d) == n \div d
MathCeil(n, d) == CHOOSE k \in 0..n : k * d >= n /\ (k - 1) * d < n

new_h(s) == MathCeil(s.num_channels, 4)
new_w(s) == MathCeil(s.splice, 4)

(* Element count of a (batch-less) shape. *)
RECURSIVE Size(_)
Size(t) == IF t = <<>> THEN 1 ELSE Head(t) * Size(Tail(t))

(* Entry: reshape of the input to [B * T, num_channels, splice, 3]. *)
CallEnterChecked ==
    /\ ctor = "ok"
    /\ pc = "idle"
    /\ ncalls < MaxCalls
    /\ ncalls' = ncalls + 1
    /\ mark' = Len(graph)
    /\ called' = <<>>
    /\ result' = None
    /\ IF Obj.lstm_impl \in {"BasicLSTMCell", "LSTMCell", "LSTMBlockCell",
                             "LSTMBlockFusedCell", "CudnnLSTM"}
         THEN /\ err' = None
              /\ tensor' = <<Obj.num_channels, Obj.splice, 3>>
              /\ pc' = "VGG1"
         ELSE /\ err' = Some([type |-> "IndexError",
                              names |-> <<"BasicLSTMCell", "LSTMCell",
                                          "LSTMBlockCell",
                                          "LSTMBlockFusedCell",
                                          "CudnnLSTM">>])
              /\ tensor' = <<>>
              /\ pc' = "idle"
    /\ UNCHANGED <<args, ctor, self, graph>>
CallEnter ==
    /\ ctor = "ok"
    /\ pc = "idle"
    /\ ncalls < MaxCalls
    /\ ncalls' = ncalls + 1
    /\ mark' = Len(graph)
    /\ called' = <<>>
    /\ result' = None
    /\ err' = None
    /\ tensor' = <<Obj.num_channels, Obj.splice, 3>>
    /\ pc' = "VGG1"
    /\ UNCHANGED <<args, ctor, self, graph>>

VGG1 ==
    /\ pc = "VGG1"
    /\ tensor' = max_pool(batch_normalization(
                     conv_layer(conv_layer(tensor, <<3, 3, 3, 64>>),
                                <<3, 3, 64, 64>>)))
    /\ graph' = Append(graph, "VGG1")
    /\ pc' = "VGG2"
    /\ UNCHANGED <<args, ctor, self, mark, called, result, err, ncalls>>

VGG2 ==
    /\ pc = "VGG2"
    /\ tensor' = max_pool(batch_normalization(
                     conv_layer(conv_layer(tensor, <<3, 3, 64, 128>>),
                                <<3, 3, 128, 128>>)))
    /\ graph' = Append(graph, "VGG2")
    /\ pc' = "flatten"
    /\ UNCHANGED <<args, ctor, self, mark, called, result, err, ncalls>>

(* Reshape to [B * T, new_h * new_w * 128]. *)
FlattenStoring ==
    /\ pc = "flatten"
    /\ tensor' = <<new_h(Obj) * new_w(Obj) * 128>>
    /\ self' = Some([Obj EXCEPT !.num_channels = new_h(Obj),
                                !.splice = new_w(Obj)])
    /\ pc' = "bridge"
    /\ UNCHANGED <<args, ctor, graph, mark, called, result, err, ncalls>>
Flatten ==
    /\ pc = "flatten"
    /\ tensor' = <<new_h(Obj) * new_w(Obj) * 128>>
    /\ pc' = "bridge"
    /\ UNCHANGED <<args, ctor, self, graph, mark, called, result, err, ncalls>>

(* fully_connected(num_outputs=256) *)
Bridge ==
    /\ pc = "bridge"
    /\ tensor' = <<256>>
    /\ graph' = Append(graph, "bridge")
    /\ pc' = "dropout"
    /\ UNCHANGED <<args, ctor, self, mark, called, result, err, ncalls>>

(* tf.nn.dropout, then reshape back to [B, T, 256]. *)
Dropout ==
    /\ pc = "dropout"
    /\ tensor' = tensor
    /\ graph' = Append(graph, "dropout")
    /\ pc' = "dispatch"
    /\ UNCHANGED <<args, ctor, self, mark, called, result, err, ncalls>>

Invoke(builder, ret) == Some([builder |-> builder, ret |-> ret])

(* The if / elif chain on self.lstm_impl: the builder call made and what it
   returned, or None where the chain ends in raise IndexError. *)
BackendDefaulting(s) ==
    IF s.lstm_impl = "LSTMCell"
      THEN Invoke("lstmcell",
                  lstmcell(s.num_units, s.num_proj, s.num_layers,
                           s.time_major))
    ELSE IF s.lstm_impl = "LSTMBlockCell"
      THEN Invoke("lstmblockcell",
                  lstmblockcell(s.num_units, s.num_layers, s.time_major))
    ELSE IF s.lstm_impl = "LSTMBlockFusedCell"
      THEN Invoke("lstmblockfusedcell",
                  lstmblockfusedcell(s.num_units, s.num_layers, s.time_major))
    ELSE IF s.lstm_impl = "CudnnLSTM"
      THEN Invoke("cudnnlstm",
                  cudnnlstm(s.num_units, s.num_layers, s.time_major))
    ELSE Invoke("basiclstmcell",
                basiclstmcell(s.num_units, s.num_layers, s.time_major))
BackendFusedAsBlock(s) ==
    IF s.lstm_impl = "BasicLSTMCell"
      THEN Invoke("basiclstmcell",
                  basiclstmcell(s.num_units, s.num_layers, s.time_major))
    ELSE IF s.lstm_impl = "LSTMCell"
      THEN Invoke("lstmcell",
                  lstmcell(s.num_units, s.num_proj, s.num_layers,
                           s.time_major))
    ELSE IF s.lstm_impl = "LSTMBlockCell" \/ s.lstm_impl = "LSTMBlockFusedCell"
      THEN Invoke("lstmblockcell",
                  lstmblockcell(s.num_units, s.num_layers, s.time_major))
    ELSE IF s.lstm_impl = "CudnnLSTM"
      THEN Invoke("cudnnlstm",
                  cudnnlstm(s.num_units, s.num_layers, s.time_major))
    ELSE None
Backend(s) ==
    IF s.lstm_impl = "BasicLSTMCell"
      THEN Invoke("basiclstmcell",
                  basiclstmcell(s.num_units, s.num_layers, s.time_major))
    ELSE IF s.lstm_impl = "LSTMCell"
      THEN Invoke("lstmcell",
                  lstmcell(s.num_units, s.num_proj, s.num_layers,
                           s.time_major))
    ELSE IF s.lstm_impl = "LSTMBlockCell"
      THEN Invoke("lstmblockcell",
                  lstmblockcell(s.num_units, s.num_layers, s.time_major))
    ELSE IF s.lstm_impl = "LSTMBlockFusedCell"
      THEN Invoke("lstmblockfusedcell",
                  lstmblockfusedcell(s.num_units, s.num_layers, s.time_major))
    ELSE IF s.lstm_impl = "CudnnLSTM"
      THEN Invoke("cudnnlstm",
                  cudnnlstm(s.num_units, s.num_layers, s.time_major))
    ELSE None

(* The names the IndexError message spells out, in order. *)
MessageNames ==
    <<"BasicLSTMCell", "LSTMCell", "LSTMBlockCell", "LSTMBlockFusedCell",
      "CudnnLSTM">>

(* Backend dispatch and `return outputs, final_state`. *)
Dispatch ==
    /\ pc = "dispatch"
    /\ LET b == Backend(Obj) IN
         IF b # None
           THEN /\ called' = Append(called, b[1])
                /\ graph' = Append(graph, b[1].builder)
                /\ result' = Some(<<b[1].ret.outputs, b[1].ret.final_state>>)
                /\ err' = None
           ELSE /\ called' = called
                /\ graph' = graph
                /\ result' = None
                /\ err' = Some([type |-> "IndexError", names |-> MessageNames])
    /\ tensor' = <<>>
    /\ pc' = "idle"
    /\ UNCHANGED <<args, ctor, self, mark, ncalls>>

Init ==
    /\ args \in ArgSpace
    /\ ctor = "new"
    /\ self = None
    /\ pc = "idle"
    /\ tensor = <<>>
    /\ graph = <<>>
    /\ mark = 0
    /\ called = <<>>
    /\ result = None
    /\ err = "none"
    /\ ncalls = 0

Next ==
    \/ Construct
    \/ CallEnter
    \/ VGG1
    \/ VGG2
    \/ Flatten
    \/ Bridge
    \/ Dropout
    \/ Dispatch

Spec == Init /\ [][Next]_vars

----------------------------------------------------------------------------
(* Properties *)

Recognized ==
    {"BasicLSTMCell", "LSTMCell", "LSTMBlockCell", "LSTMBlockFusedCell",
     "CudnnLSTM"}

Builders ==
    {"basiclstmcell", "lstmcell", "lstmblockcell", "lstmblockfusedcell",
     "cudnnlstm"}

BuilderOf(impl) ==
    CASE impl = "BasicLSTMCell" -> "basiclstmcell"
      [] impl = "LSTMCell" -> "lstmcell"
      [] impl = "LSTMBlockCell" -> "lstmblockcell"
      [] impl = "LSTMBlockFusedCell" -> "lstmblockfusedcell"
      [] impl = "CudnnLSTM" -> "cudnnlstm"

Constructed == ctor = "ok"
Attempted == ctor # "new"
Returned == pc = "idle" /\ ncalls > 0

(* C1: construction with an input_size that is not a multiple of 3 fails
   and produces no encoder, whatever the other arguments are. *)
C1_NonMultipleOfThreeFails ==
    (Attempted /\ args.input_size % 3 # 0)
        => (ctor = "AssertionError" /\ self = None)

C1_Witness ==
    /\ ctor = "AssertionError"
    /\ args.input_size % 3 = 2
    /\ args.num_proj # 0
    /\ args.lstm_impl = "BasicLSTMCell"

(* C2: construction with num_proj = 0 fails, whatever lstm_impl and the
   other arguments are. *)
C2_ZeroProjFails ==
    (Attempted /\ args.num_proj = 0)
        => (ctor = "AssertionError" /\ self = None)

C2_Witness ==
    /\ ctor = "AssertionError"
    /\ args.num_proj = 0
    /\ args.input_size % 3 = 0
    /\ args.lstm_impl = "LSTMCell"

(* C3 as stated: with a selector other than 'LSTMCell' and input_size a
   multiple of 3, construction with num_proj = 0 succeeds. *)
C3_ZeroProjAcceptedWhenIgnored ==
    (Attempted /\ args.lstm_impl # "LSTMCell" /\ args.input_size % 3 = 0
               /\ args.num_proj = 0)
        => Constructed

(* C3 amended: the projection width must be nonzero also for a backend
   that ignores it: with a selector other than 'LSTMCell' and input_size a
   multiple of 3, construction succeeds exactly when num_proj # 0 (and the
   width is then discarded). *)
C3_ZeroProjRejectedEvenWhenIgnored ==
    (Attempted /\ args.lstm_impl # "LSTMCell" /\ args.input_size % 3 = 0)
        => /\ Constructed <=> args.num_proj # 0
           /\ Constructed => Obj.num_proj = None

C3_Witness ==
    /\ ctor = "AssertionError"
    /\ args.lstm_impl = "CudnnLSTM"
    /\ args.num_proj = 0
    /\ args.input_size = 3

(* C4: an unrecognized selector passes construction (with otherwise valid
   arguments) and makes every invocation fail with the IndexError whose
   message names the five selectors, with no builder called and nothing
   returned. *)
C4_UnrecognizedFailsAtCall ==
    /\ (Attempted /\ args.lstm_impl \notin Recognized /\ args.num_proj # 0
                  /\ args.input_size % 3 = 0)
           => Constructed
    /\ (Constructed /\ Obj.lstm_impl \notin Recognized)
           => /\ called = <<>>
              /\ result = None
              /\ \A i \in 1..Len(graph) : graph[i] \notin Builders
              /\ Returned
                     => /\ err # None
                        /\ err[1].type = "IndexError"
                        /\ {err[1].names[i] : i \in 1..Len(err[1].names)}
                               = Recognized

C4_Witness ==
    /\ Constructed
    /\ Obj.lstm_impl = "GRUCell"
    /\ Returned
    /\ ncalls = 2
    /\ err # None

(* C5: with one of the five selectors an invocation succeeds, calls the
   builder the selector names, once, and no other, and returns that
   builder's (outputs, final_state), the outputs' last dimension being
   num_units, or num_proj for 'LSTMCell'. *)
C5_RecognizedDispatch ==
    (Constructed /\ Obj.lstm_impl \in Recognized /\ Returned)
        => /\ err = None
           /\ Len(called) = 1
           /\ called[1].builder = BuilderOf(args.lstm_impl)
           /\ result = Some(<<called[1].ret.outputs,
                              called[1].ret.final_state>>)
           /\ result[1][2][1] = BuilderOf(args.lstm_impl)
           /\ result[1][1][3] = IF args.lstm_impl = "LSTMCell"
                                  THEN args.num_proj
                                  ELSE args.num_units

C5_Witness ==
    /\ Constructed
    /\ Returned
    /\ args.lstm_impl = "LSTMCell"
    /\ args.num_proj = 2
    /\ args.num_units = 1
    /\ result # None
    /\ result[1][1][3] = 2

(* C6: after a successful construction the stored num_proj is the argument
   when lstm_impl is 'LSTMCell' and None for every other selector,
   unrecognized ones included. *)
C6_ProjKeptOnlyForLSTMCell ==
    Constructed
        => /\ args.lstm_impl = "LSTMCell" => Obj.num_proj = <<args.num_proj>>
           /\ args.lstm_impl # "LSTMCell" => Obj.num_proj = <<>>

C6_Witness ==
    /\ Constructed
    /\ args.lstm_impl = "GRUCell"
    /\ args.num_proj = 2
    /\ Obj.num_proj = None

(* C7: the feature map left by the two stages is ceil(C/4) x ceil(S/4) x
   128 (each pooling halving with ceiling, convolutions keeping the spatial
   dimensions), and the width it is flattened to, ceil(C/4) * ceil(S/4) *
   128, is its element count. *)
C7_FlattenedWidth ==
    Constructed
        => LET C == Obj.num_channels
               S == Obj.splice
           IN  /\ pc = "VGG2"
                      => tensor = <<(C + 1) \div 2, (S + 1) \div 2, 64>>
               /\ pc = "flatten"
                      => /\ tensor = <<(C + 3) \div 4, (S + 3) \div 4, 128>>
                         /\ Size(tensor) = new_h(Obj) * new_w(Obj) * 128
               /\ pc = "bridge"
                      => tensor = <<((C + 3) \div 4) * ((S + 3) \div 4) * 128>>

C7_Witness ==
    /\ pc = "bridge"
    /\ Obj.num_channels = 5
    /\ Obj.splice = 6
    /\ tensor = <<512>>

(* C8: with input_size a multiple of 3 and num_proj # 0 construction
   succeeds and input_size = 3 * num_channels. *)
C8_ChannelCount ==
    (Attempted /\ args.input_size % 3 = 0 /\ args.num_proj # 0)
        => /\ Constructed
           /\ Obj.input_size = args.input_size
           /\ 3 * Obj.num_channels = Obj.input_size

C8_Witness ==
    /\ Constructed
    /\ args.input_size = 27
    /\ Obj.num_channels = 9

(* C9: no step of any invocation, successful or failing, changes a field
   of the constructed encoder. *)
C9_ConfigurationFrozen == [][Constructed => self' = self]_vars

C9_Witness ==
    /\ Constructed
    /\ Returned
    /\ ncalls = 2
    /\ self = Some(Fields(args))

(* C10: every invocation adds VGG1, VGG2, bridge, dropout to the graph in
   this order before the selector is examined, so an invocation that fails
   on the selector has added exactly these four stages. *)
Stages == <<"VGG1", "VGG2", "bridge", "dropout">>

Built == SubSeq(graph, mark + 1, Len(graph))

C10_StagesBeforeDispatch ==
    Constructed
        => /\ pc = "VGG1" => Built = <<>> /\ err = None
           /\ pc = "VGG2" => Built = SubSeq(Stages, 1, 1) /\ err = None
           /\ pc \in {"flatten", "bridge"}
                  => Built = SubSeq(Stages, 1, 2) /\ err = None
           /\ pc = "dropout" => Built = SubSeq(Stages, 1, 3) /\ err = None
           /\ pc = "dispatch" => Built = Stages /\ err = None
           /\ (Returned /\ err # None) => Built = Stages
           /\ (Returned /\ err = None)
                  => Built = Append(Stages, called[1].builder)

C10_Witness ==
    /\ Returned
    /\ err # None
    /\ ncalls = 1
    /\ graph = Stages

====
